---- MODULE Spec2Model ----
(***************************************************************************)
(* Calibration maintenance engine of QubitCal (core/node.py) together with *)
(* the parameter store it writes to (database/database.py).                *)
(*                                                                         *)
(* Every public method of CalibrationNode is one action.  A method body is *)
(* an operator from a program state to the SET of its possible results:    *)
(* the strategy's answers (bad_data, test_in_spec, analyze) are the only   *)
(* source of nondeterminism, and a result carries the state the call left  *)
(* behind, the exception that escaped it (exc) and its return value (ret). *)
(* Run-time errors of the interpreter are results like any other: a read   *)
(* of an attribute no class defines is "AttributeError", a read of a local *)
(* that no executed statement bound is "UnboundLocalError", a subscript of *)
(* the None that fetchone() returns on an empty table is "TypeError".      *)
(***************************************************************************)
EXTENDS Naturals, Integers, Sequences, FiniteSets, TLC

\* ------------------------------------------------------------------ bounds
MaxTime == 2        \* the clock runs over 0..MaxTime
MaxRows == 1        \* maintain and diagnose stop at tables over MaxRows rows
MaxDeps == 2        \* a dag_dict entry lists at most MaxDeps names
MaxText == 4        \* a reference string has at most MaxText characters
MaxLevel == 2       \* spreads, errors and thresholds of a data set: 0..MaxLevel
MaxDepth == 6       \* a call is made only while fewer than MaxDepth are open

\* --------------------------------------------------------------- constants
Null == 0           \* the SQL NULL of a column that insert never set
period_of_validity == 1   \* timedelta(minutes=calibration.timeout), in ticks

\* the parameter values a strategy fits and a caller stores
Vals == {1, 2}
\* the dictionaries a caller stores and the value lists analyze returns
SeedDicts == {[a |-> 1, b |-> 2]}
Fits == {<<1, 2>>, <<2, 1>>}
param_keys == <<"a", "b">>
KeySet == {param_keys[i] : i \in 1..Len(param_keys)}

Nodes == {"Base", "N1", "N2", "N3"}
CalNodes == Nodes \ {"Base"}

\* The graphs the model is run on: the nodes constructed and the dependents
\* list of each (Node.dependents).
\*   1: N2 -> N1                a chain of two calibration nodes
\*   2: N2 -> N1 -> Base        a chain down to the Base node
NoDeps == [n \in Nodes |-> << >>]
Graphs ==
  { [nodes |-> {"N1", "N2"}, deps |-> [NoDeps EXCEPT !["N2"] = <<"N1">>]],
    [nodes |-> {"N1", "N2"},
     deps |-> [NoDeps EXCEPT !["N1"] = <<"Base">>, !["N2"] = <<"N1">>]] }

\* before dict2dag has constructed a node
NoGraph == [nodes |-> {}, deps |-> NoDeps]

VARIABLES
  nodes,               \* the calibration nodes constructed
  dependents,          \* Node.dependents: node -> sequence of nodes
  discovered,          \* CalibrationNode.discovered
  recalibrated,        \* CalibrationNode.recalibrated
  calibration_failed,  \* CalibrationNode.calibration_failed
  history,             \* the store: table of a node -> sequence of rows
  now,                 \* datetime.now()
  cls,                 \* per node, the quick-check verdict of the last call
  cal,                 \* per node, whether the last call ran calibrate on it
  lastOp,              \* the method called last
  lastNode,            \* the node it was called on
  exc,                 \* the exception that escaped it, or "none"
  ret,                 \* the value it returned, or "none"
  node_failed,         \* DiagnoseFailure.node_failed of that exception
  retvals,             \* the dictionary it returned (calibrate)
  fitted,              \* calibrated_params of the last successful analyze
  strategy_calls,      \* the strategy calls the last calibrate made, in order
  diag_failed,         \* the node the last call raised DiagnoseFailure for
  events,              \* what the last call did, step by step
  stack,               \* the calls of a maintain run that have not returned
  fit_in,              \* PhysicalCalibration: the data set fit/test_in_spec gets
  fit_out,             \* PhysicalCalibration: the result the last call returned
  dag_keys,            \* topological_sort: dag_dict.keys(), in iteration order
  dag_dict,            \* topological_sort: name -> the names it lists
  sort_out,            \* topological_sort: what the last call ended with
  nodes_config,        \* dict2dag: the configuration it is given
  dag_container,       \* dict2dag: name -> the node object constructed
  build_exc,           \* dict2dag: how the call ended
  param_text,          \* parse_param: the string it is given
  parse_out            \* parse_param: how the call ended and what it returned

vars == <<nodes, dependents, discovered, recalibrated, calibration_failed, history,
          now, cls, cal, lastOp, lastNode, exc, ret, node_failed, retvals,
          fitted, strategy_calls, diag_failed, events, stack, fit_in, fit_out,
          dag_keys, dag_dict, sort_out,
          nodes_config, dag_container, build_exc, param_text, parse_out>>

\* the variables of the maintenance engine and those of graph construction
engine_vars == <<nodes, dependents, discovered, recalibrated,
                 calibration_failed, history, now, cls, cal, lastOp, lastNode,
                 exc, ret, node_failed, retvals, fitted, strategy_calls,
                 diag_failed, events, stack, fit_in, fit_out>>
build_vars == <<dag_keys, dag_dict, sort_out, nodes_config, dag_container,
                build_exc, param_text, parse_out>>

\* ---------------------------------------------------------- program state
NoDict == [k \in KeySet |-> Null]
NoneCls == [n \in CalNodes |-> "none"]

\* the mutable part of the program, as threaded through a call
Cur == [discovered |-> discovered, recalibrated |-> recalibrated,
        calibration_failed |-> calibration_failed, history |-> history,
        cls |-> NoneCls, cal |-> NoneCls, fitted |-> << >>,
        strategy_calls |-> << >>, diag_failed |-> "none", events |-> << >>]

\* the call does step ev on node n
Log(st, ev, n) == [st EXCEPT !.events = Append(@, [ev |-> ev, node |-> n])]

Ok(st, r) ==
  [st |-> st, exc |-> "none", ret |-> r, node_failed |-> "none", vals |-> NoDict]
OkDict(st, d) ==
  [st |-> st, exc |-> "none", ret |-> "dict", node_failed |-> "none", vals |-> d]
\* raise e: the exception leaves the statement that is being executed
Raise(st, e) ==
  [st |-> Log(st, "raise", "none"), exc |-> e, ret |-> "none",
   node_failed |-> "none", vals |-> NoDict]

\* DiagnoseFailure(node_failed)
DiagnoseFailure(st, n) ==
  [st |-> Log([st EXCEPT !.diag_failed = n], "raise", "none"),
   exc |-> "DiagnoseFailure", ret |-> "none", node_failed |-> n,
   vals |-> NoDict]

\* ------------------------------------------------------------------ store
\* nodes_config["Base"]: the parameters BaseNode writes
BaseParams == [k \in KeySet |-> 1]

Last(h) == h[Len(h)]

\* insert that writes over the latest row of the table instead of adding one
insert_replaces_last(st, n, var_dict, is_dict) ==
  LET row == [timestamp |-> now,
              vals |-> IF is_dict THEN var_dict ELSE NoDict]
      h == st.history[n]
      st2 == [st EXCEPT !.history[n] =
                IF h = << >> THEN << row >> ELSE [h EXCEPT ![Len(h)] = row]]
  IN IF is_dict THEN Ok(st2, "None") ELSE Raise(st2, "AttributeError")

\* CalibrationDatabase.insert: the row is created with its timestamp and all
\* parameter columns NULL; then the columns are set from var_dict.items().
\* A var_dict that is a list has no items(): the row stays, all NULL.
insert(st, n, var_dict, is_dict) ==
  LET row == [timestamp |-> now,
              vals |-> IF is_dict THEN var_dict ELSE NoDict]
      st2 == Log([st EXCEPT !.history[n] = Append(@, row)], "append", n)
  IN IF is_dict THEN Ok(st2, "None") ELSE Raise(st2, "AttributeError")

\* CalibrationDatabase.last_params(table, *keys): the list of the last row's
\* values in the order of keys (callers check the table is not empty)
last_params(h, keys) == [i \in 1..Len(keys) |-> Last(h).vals[keys[i]]]

\* CalibrationDatabase.last_timestamp
last_timestamp(h) == Last(h).timestamp

\* CalibrationNode.update_params
update_params(st, n, param_dict, is_dict) == insert(st, n, param_dict, is_dict)

\* ------------------------------------------------------------- check_state
\* timeout with the comparison turned round
timeout_reversed(st, n) ==
  now - last_timestamp(st.history[n]) < period_of_validity

\* CalibrationNode.timeout (property); callers check the table is not empty
timeout(st, n) == now - last_timestamp(st.history[n]) > period_of_validity

\* CalibrationNode.check_state.  Passing the first test reads self.parents,
\* an attribute that neither Node nor CalibrationNode defines.
check_state(st, n) ==
  IF Len(st.history[n]) = 0 THEN Raise(st, "TypeError")
  ELSE IF timeout(st, n) \/ st.calibration_failed[n] THEN Ok(st, "False")
  ELSE Raise(st, "AttributeError")

\* ------------------------------------------------------------- check_data
\* dict2dag builds a node's dependents from the node parts of its
\* dependent_param_keys, in order: the referenced names are the dependents.
dependent_param_keys(n) == dependents[n]

\* CalibrationNode.retrieve_dependent_params, from key i on: the exception it
\* raises, or "none".  An unknown name is a CalibrationFailure; the last
\* parameters of a dependent whose table is empty are a TypeError.
RECURSIVE retrieve_dependent_params(_, _, _)
retrieve_dependent_params(st, n, i) ==
  IF i > Len(dependent_param_keys(n)) THEN "none"
  ELSE LET node_name == dependent_param_keys(n)[i]
       IN IF ~ \E j \in 1..Len(dependents[n]) : dependents[n][j] = node_name
          THEN "CalibrationFailure"
          ELSE IF Len(st.history[node_name]) = 0 THEN "TypeError"
          ELSE retrieve_dependent_params(st, n, i + 1)

\* check_data that also clears calibration_failed when the scan is in spec
check_data_clears_failed(st, n) ==
  LET e == retrieve_dependent_params(st, n, 1)
  IN IF e # "none" THEN {Raise(st, e)}
     ELSE UNION {
       IF bad THEN {Ok([st EXCEPT !.cls[n] = "BAD"], "BAD_DATA")}
       ELSE IF Len(st.history[n]) = 0 THEN {Raise(st, "TypeError")}
       ELSE UNION {
         IF in_spec
         THEN LET lp == last_params(st.history[n], param_keys)
                  u == update_params([st EXCEPT !.cls[n] = "IN",
                                        !.calibration_failed[n] = FALSE],
                                     n, lp, FALSE)
              IN IF u.exc # "none" THEN {u} ELSE {Ok(u.st, "IN_SPEC")}
         ELSE {Ok([st EXCEPT !.cls[n] = "OUT"], "OUT_OF_SPEC")}
         : in_spec \in BOOLEAN }
       : bad \in BOOLEAN }

\* CalibrationNode.check_data.  bad and in_spec are the strategy's answers
\* bad_data(scan()) and test_in_spec(scan(), last_params).  The in-spec branch
\* hands the LIST of last parameters to update_params.
check_data(st, n) ==
  LET e == retrieve_dependent_params(st, n, 1)
      sc == Log(Log(st, "scan", n), "bad_data", n)
      ts == Log(sc, "test_in_spec", n)
  IN IF e # "none" THEN {Raise(st, e)}
     ELSE UNION {
       IF bad THEN {Ok([sc EXCEPT !.cls[n] = "BAD"], "BAD_DATA")}
       ELSE IF Len(sc.history[n]) = 0 THEN {Raise(sc, "TypeError")}
       ELSE UNION {
         IF in_spec
         THEN LET lp == last_params(ts.history[n], param_keys)
                  u == update_params([ts EXCEPT !.cls[n] = "IN"], n, lp, FALSE)
              IN IF u.exc # "none" THEN {u} ELSE {Ok(u.st, "IN_SPEC")}
         ELSE {Ok([ts EXCEPT !.cls[n] = "OUT"], "OUT_OF_SPEC")}
         : in_spec \in BOOLEAN }
       : bad \in BOOLEAN }

\* --------------------------------------------------------------- calibrate
\* dict(zip(param_keys, calibrated_params))
zip_dict(keys, calibrated_params) ==
  [k \in KeySet |->
     IF \E i \in 1..Len(keys) : keys[i] = k /\ i <= Len(calibrated_params)
     THEN calibrated_params[CHOOSE i \in 1..Len(keys) : keys[i] = k]
     ELSE Null]

\* one strategy call of node n, with the answer it gave
Call(n, method, answer) == [node |-> n, method |-> method, answer |-> answer]

\* the strategy calls of calibrate up to the bad_data test
ScanCalls(st, n, bad) ==
  st.strategy_calls \o << Call(n, "scan", "data"),
                          Call(n, "bad_data", IF bad THEN "True" ELSE "False") >>

\* calibrate that fits the data before it tests them for bad data
calibrate_analyzes_first(st, n) ==
  LET e == retrieve_dependent_params(st, n, 1)
  IN IF e # "none" THEN {Raise(st, e)}
     ELSE UNION { UNION {
       LET calls == st.strategy_calls \o
                      << Call(n, "scan", "data"),
                         Call(n, "analyze", IF succeeded THEN "True" ELSE "False"),
                         Call(n, "bad_data", IF bad THEN "True" ELSE "False") >>
       IN IF bad
          THEN {Raise([st EXCEPT !.calibration_failed[n] = TRUE,
                                 !.cal[n] = "failed",
                                 !.strategy_calls = calls],
                      "CalibrationFailure")}
          ELSE IF succeeded
          THEN {OkDict([st EXCEPT !.cal[n] = "ok", !.fitted = cp,
                                  !.strategy_calls = calls],
                       zip_dict(param_keys, cp))
                : cp \in Fits}
          ELSE {Raise([st EXCEPT !.calibration_failed[n] = TRUE,
                                 !.cal[n] = "failed",
                                 !.strategy_calls = calls], "AttributeError")}
       : succeeded \in BOOLEAN }
       : bad \in BOOLEAN }

\* calibrate that marks the node recalibrated when its scan is bad data
calibrate_marks_recalibrated(st0, n) ==
  LET st == Log(st0, "calibrate", n)
      e == retrieve_dependent_params(st, n, 1)
  IN IF e # "none" THEN {Raise(st, e)}
     ELSE UNION {
       IF bad
       THEN {Raise([st EXCEPT !.calibration_failed[n] = TRUE,
                              !.recalibrated[n] = TRUE,
                              !.cal[n] = "failed",
                              !.strategy_calls = ScanCalls(st, n, TRUE)],
                   "CalibrationFailure")}
       ELSE UNION {
         LET calls == Append(ScanCalls(st, n, FALSE),
                             Call(n, "analyze",
                                  IF succeeded THEN "True" ELSE "False"))
         IN IF succeeded
            THEN {OkDict([st EXCEPT !.cal[n] = "ok", !.fitted = cp,
                                    !.strategy_calls = calls],
                         zip_dict(param_keys, cp))
                  : cp \in Fits}
            ELSE {Raise([st EXCEPT !.calibration_failed[n] = TRUE,
                                   !.cal[n] = "failed",
                                   !.strategy_calls = calls],
                        "AttributeError")}
         : succeeded \in BOOLEAN }
       : bad \in BOOLEAN }

\* CalibrationNode.calibrate.  bad and succeeded are the strategy's answers;
\* the result of analyze is a CalibrationResult (succeeded, error_code,
\* calibrated_params), which has no field `status`.
calibrate(st0, n) ==
  LET st == Log(st0, "calibrate", n)
      e == retrieve_dependent_params(st, n, 1)
  IN IF e # "none" THEN {Raise(st, e)}
     ELSE UNION {
       IF bad
       THEN {Raise([st EXCEPT !.calibration_failed[n] = TRUE,
                              !.cal[n] = "failed",
                              !.strategy_calls = ScanCalls(st, n, TRUE)],
                   "CalibrationFailure")}
       ELSE UNION {
         LET calls == Append(ScanCalls(st, n, FALSE),
                             Call(n, "analyze",
                                  IF succeeded THEN "True" ELSE "False"))
         IN IF succeeded
            THEN {OkDict([st EXCEPT !.cal[n] = "ok", !.fitted = cp,
                                    !.strategy_calls = calls],
                         zip_dict(param_keys, cp))
                  : cp \in Fits}
            ELSE {Raise([st EXCEPT !.calibration_failed[n] = TRUE,
                                   !.cal[n] = "failed",
                                   !.strategy_calls = calls],
                        "AttributeError")}
         : succeeded \in BOOLEAN }
       : bad \in BOOLEAN }

\* ---------------------------------------------------------------- diagnose
RECURSIVE diagnose(_, _)
RECURSIVE diagnose_dependents(_, _, _, _)

\* recalibrated = [n.diagnose() for n in self.dependents], from dependent i
\* on; ret is any(recalibrated).  A BaseNode has no method diagnose.
diagnose_dependents(st, n, i, any) ==
  IF i > Len(dependents[n])
  THEN {Ok(st, IF any THEN "True" ELSE "False")}
  ELSE LET d == dependents[n][i]
       IN IF d = "Base" THEN {Raise(st, "AttributeError")}
          ELSE UNION { IF r.exc # "none" THEN {r}
                       ELSE diagnose_dependents(r.st, n, i + 1,
                                                any \/ r.ret = "True")
                       : r \in diagnose(st, d) }

\* self.update_params(self.calibrate()); self.recalibrated = True; return True
recalibrate(st, n) ==
  UNION { IF c.exc # "none" THEN {c}
          ELSE LET u == update_params(c.st, n, c.vals, TRUE)
               IN IF u.exc # "none" THEN {u}
                  ELSE {Ok(Log([u.st EXCEPT !.recalibrated[n] = TRUE],
                               "diagnosed", n), "True")}
          : c \in calibrate(st, n) }

\* diagnose setting the recalibrated flag before it takes any data
diagnose_sets_flag_first(st, n) ==
  UNION {
    IF r.exc # "none" THEN {r}
    ELSE IF r.ret = "IN_SPEC" THEN {Ok(Log(r.st, "diagnosed", n), "False")}
    ELSE IF r.ret = "BAD_DATA"
    THEN UNION { IF q.exc # "none" THEN {q}
                 ELSE IF q.ret = "False" THEN {DiagnoseFailure(q.st, n)}
                 ELSE recalibrate(q.st, n)
                 : q \in diagnose_dependents(r.st, n, 1, FALSE) }
    ELSE {Raise(r.st, "UnboundLocalError")}
    : r \in check_data(Log([st EXCEPT !.recalibrated[n] = TRUE],
                           "diagnose", n), n) }

\* diagnose whose out-of-spec branch goes on to the recalibration
diagnose_recalibrates_out_of_spec(st, n) ==
  UNION {
    IF r.exc # "none" THEN {r}
    ELSE IF r.ret = "IN_SPEC" THEN {Ok(Log(r.st, "diagnosed", n), "False")}
    ELSE IF r.ret = "BAD_DATA"
    THEN UNION { IF q.exc # "none" THEN {q}
                 ELSE IF q.ret = "False" THEN {DiagnoseFailure(q.st, n)}
                 ELSE recalibrate(q.st, n)
                 : q \in diagnose_dependents(r.st, n, 1, FALSE) }
    ELSE recalibrate(r.st, n)
    : r \in check_data(Log(st, "diagnose", n), n) }

\* CalibrationNode.diagnose.  The local `recalibrated` is bound only in the
\* BAD_DATA branch; after OUT_OF_SPEC the test `any(recalibrated)` reads it
\* unbound.
diagnose(st, n) ==
  UNION {
    IF r.exc # "none" THEN {r}
    ELSE IF r.ret = "IN_SPEC" THEN {Ok(Log(r.st, "diagnosed", n), "False")}
    ELSE IF r.ret = "BAD_DATA"
    THEN UNION { IF q.exc # "none" THEN {q}
                 ELSE IF q.ret = "False" THEN {DiagnoseFailure(q.st, n)}
                 ELSE recalibrate(q.st, n)
                 : q \in diagnose_dependents(r.st, n, 1, FALSE) }
    ELSE {Raise(r.st, "UnboundLocalError")}
    : r \in check_data(Log(st, "diagnose", n), n) }

\* ------------------------------------------------------------- reset_flags
RECURSIVE reset_flags(_, _)
RECURSIVE reset_dependents(_, _, _)

\* for node in self.dependents: node.reset_flags(), from dependent i on.
\* A BaseNode has no method reset_flags.
reset_dependents(st, n, i) ==
  IF i > Len(dependents[n]) THEN Ok(st, "None")
  ELSE LET d == dependents[n][i]
       IN IF d = "Base" THEN Raise(st, "AttributeError")
          ELSE LET r == reset_flags(st, d)
               IN IF r.exc # "none" THEN r
                  ELSE reset_dependents(r.st, n, i + 1)

\* reset_flags that forgets the discovered flag
reset_flags_keeps_discovered(st, n) ==
  LET r == reset_dependents(st, n, 1)
  IN IF r.exc # "none" THEN r
     ELSE Ok([r.st EXCEPT !.recalibrated[n] = FALSE], "None")

\* reset_flags that clears calibration_failed with the other two flags
reset_flags_clears_failed(st, n) ==
  LET r == reset_dependents(st, n, 1)
  IN IF r.exc # "none" THEN r
     ELSE Ok([r.st EXCEPT !.recalibrated[n] = FALSE,
                          !.discovered[n] = FALSE,
                          !.calibration_failed[n] = FALSE], "None")

\* CalibrationNode.reset_flags
reset_flags(st, n) ==
  LET r == reset_dependents(st, n, 1)
  IN IF r.exc # "none" THEN r
     ELSE Ok([r.st EXCEPT !.recalibrated[n] = FALSE,
                          !.discovered[n] = FALSE], "None")

\* ---------------------------------------------------------------- maintain
RECURSIVE _maintain(_, _, _)
RECURSIVE maintain_dependents(_, _, _)

\* the loop over the dependents with a Base node that is maintained like a
\* calibration node and refreshes its row
maintain_dependents_measures_base(st, n, i) ==
  IF i > Len(dependents[n]) THEN {Ok(st, "None")}
  ELSE LET d == dependents[n][i]
       IN IF d = "Base"
          THEN maintain_dependents(insert(st, "Base", BaseParams, TRUE).st, n,
                                   i + 1)
          ELSE UNION { IF r.exc # "none" THEN {r}
                       ELSE maintain_dependents(r.st, n, i + 1)
                       : r \in _maintain(st, d, FALSE) }

\* for n in self.dependents: n._maintain(), from dependent i on.
\* A BaseNode has no method _maintain.
maintain_dependents(st, n, i) ==
  IF i > Len(dependents[n]) THEN {Ok(st, "None")}
  ELSE LET d == dependents[n][i]
       IN IF d = "Base" THEN {Raise(st, "AttributeError")}
          ELSE UNION { IF r.exc # "none" THEN {r}
                       ELSE maintain_dependents(r.st, n, i + 1)
                       : r \in _maintain(st, d, FALSE) }

\* `if reset: self.reset_flags()`, the last statement of _maintain
maintain_end(st, n, reset) ==
  IF reset THEN {reset_flags(st, n)} ELSE {Ok(st, "None")}

\* MaintainFailure(self, e.node_failed): MaintainFailure.__init__ takes one
\* argument besides self, so the construction itself raises TypeError.
raise_MaintainFailure(st, n, failed) == Raise(st, "TypeError")

\* _maintain going on to check_state whatever its dependents' maintenance raised
_maintain_goes_on(st, n, reset) ==
  IF st.discovered[n] THEN maintain_end(Log(st, "revisit", n), n, reset)
  ELSE UNION {
    LET c == check_state(Log(m.st, "check_state", n), n)
    IN IF c.exc # "none" THEN {c}
       ELSE IF c.ret = "True" THEN {Ok(Log(c.st, "skipped", n), "None")}
       ELSE UNION {
         IF d.exc = "DiagnoseFailure"
         THEN {raise_MaintainFailure(d.st, n, d.node_failed)}
         ELSE IF d.exc # "none" THEN {d}
         ELSE maintain_end(d.st, n, reset)
         : d \in diagnose(c.st, n) }
    : m \in maintain_dependents(Log([st EXCEPT !.discovered[n] = TRUE],
                                     "body", n), n, 1) }

\* CalibrationNode._maintain
_maintain(st, n, reset) ==
  IF st.discovered[n] THEN maintain_end(Log(st, "revisit", n), n, reset)
  ELSE UNION {
    IF m.exc # "none" THEN {m}
    ELSE LET c == check_state(Log(m.st, "check_state", n), n)
         IN IF c.exc # "none" THEN {c}
            ELSE IF c.ret = "True" THEN {Ok(Log(c.st, "skipped", n), "None")}
            ELSE UNION {
              IF d.exc = "DiagnoseFailure"
              THEN {raise_MaintainFailure(d.st, n, d.node_failed)}
              ELSE IF d.exc # "none" THEN {d}
              ELSE maintain_end(d.st, n, reset)
              : d \in diagnose(c.st, n) }
    : m \in maintain_dependents(Log([st EXCEPT !.discovered[n] = TRUE],
                                     "body", n), n, 1) }

\* CalibrationNode.maintain
maintain(st, n) == _maintain(st, n, TRUE)

\* nothing has been sorted
NoSort ==
  [variant |-> "none", exc |-> "none", kind |-> "none", sorted |-> << >>,
   temp |-> {}, perm |-> {}, loop |-> {}, referrer |-> "none",
   missing |-> "none", path |-> << >>]

\* the nodes of graph g as constructed, before any call; before dict2dag has
\* constructed a node the store is empty
EngineStart(g) ==
  /\ nodes = g.nodes
  /\ dependents = g.deps
  /\ discovered = [n \in CalNodes |-> FALSE]
  /\ recalibrated = [n \in CalNodes |-> FALSE]
  /\ calibration_failed = [n \in CalNodes |-> FALSE]
  /\ history = [n \in Nodes |->
                  IF n = "Base" /\ g.nodes # {}
                  THEN << [timestamp |-> 0, vals |-> BaseParams] >>
                  ELSE << >>]
  /\ now = 0
  /\ cls = NoneCls
  /\ cal = NoneCls
  /\ lastOp = "init"
  /\ lastNode = "Base"
  /\ exc = "none"
  /\ ret = "none"
  /\ node_failed = "none"
  /\ retvals = NoDict
  /\ fitted = << >>
  /\ strategy_calls = << >>
  /\ diag_failed = "none"
  /\ events = << >>
  /\ stack = << >>

EngineInit == \E g \in Graphs : EngineStart(g)

\* dict2dag has not been called
NoBuild ==
  /\ dag_container = << >>
  /\ build_exc = "unbuilt"

\* no data set has been handed to a strategy
NoFit ==
  /\ fit_in = << >>
  /\ fit_out = [method |-> "none"]

\* parse_param has not been called
NoParse == [variant |-> "none", exc |-> "none", ret |-> << >>]

\* no string is being parsed
NoText ==
  /\ param_text = << >>
  /\ parse_out = NoParse

Init ==
  /\ EngineInit
  /\ dag_keys = << >>
  /\ dag_dict = << >>
  /\ sort_out = NoSort
  /\ nodes_config = << >>
  /\ NoBuild
  /\ NoFit
  /\ NoText

\* the state after a call: its result r of method op on node n
Done(op, n, r) ==
  /\ discovered' = r.st.discovered
  /\ recalibrated' = r.st.recalibrated
  /\ calibration_failed' = r.st.calibration_failed
  /\ history' = r.st.history
  /\ cls' = r.st.cls
  /\ cal' = r.st.cal
  /\ lastOp' = op
  /\ lastNode' = n
  /\ exc' = r.exc
  /\ ret' = r.ret
  /\ node_failed' = r.node_failed
  /\ retvals' = r.vals
  /\ fitted' = r.st.fitted
  /\ strategy_calls' = r.st.strategy_calls
  /\ diag_failed' = r.st.diag_failed
  /\ events' = r.st.events
  /\ UNCHANGED <<nodes, dependents, now, stack, fit_in, fit_out>>
  /\ UNCHANGED build_vars

\* tables are kept short: maintain and diagnose are called only while no
\* table has more than MaxRows rows
RoomInStore == \A n \in Nodes : Len(history[n]) <= MaxRows

\* the clock advances between calls
Tick ==
  /\ now < MaxTime
  /\ now' = now + 1
  /\ lastOp' = "tick"
  /\ lastNode' = "Base"
  /\ exc' = "none" /\ ret' = "none" /\ node_failed' = "none"
  /\ retvals' = NoDict
  /\ cls' = NoneCls /\ cal' = NoneCls /\ fitted' = << >>
  /\ strategy_calls' = << >> /\ diag_failed' = "none" /\ events' = << >>
  /\ UNCHANGED <<nodes, dependents, discovered, recalibrated, calibration_failed,
                 history, stack, fit_in, fit_out>>
  /\ UNCHANGED build_vars

\* node.maintain()
Maintain(n) ==
  /\ RoomInStore
  /\ \E r \in maintain(Cur, n) : Done("maintain", n, r)

\* node.diagnose()
Diagnose(n) ==
  /\ RoomInStore
  /\ \E r \in diagnose(Cur, n) : Done("diagnose", n, r)

\* node.calibrate()
Calibrate(n) ==
  \E r \in calibrate(Cur, n) : Done("calibrate", n, r)

\* node.update_params(d): the caller stores a dictionary of values as the
\* first row of a freshly constructed node, whose table is empty
UpdateParams(n, d) ==
  /\ history[n] = << >>
  /\ Done("update_params", n, update_params(Cur, n, d, TRUE))

Next ==
  \/ Tick
  \/ \E n \in nodes : Maintain(n)
  \/ \E n \in nodes : Diagnose(n)
  \/ \E n \in nodes : Calibrate(n)
  \/ \E n \in nodes : \E d \in SeedDicts : UpdateParams(n, d)

Spec == Init /\ [][Next]_vars
\* ------------------------------------------------------------- properties
\* the calibration nodes reachable from n along dependents, n included
RECURSIVE Reach(_)
Reach(n) ==
  ({n} \cup UNION {Reach(dependents[n][i]) : i \in 1..Len(dependents[n])})
    \cap CalNodes

FlagsClear(n) ==
  \A m \in Reach(n) : ~discovered[m] /\ ~recalibrated[m]

TimedOut(n) ==
  /\ Len(history[n]) > 0
  /\ now - Last(history[n]).timestamp > period_of_validity

C2_FlagsClearAfterFailure ==
  (lastOp = "maintain" /\ exc # "none" /\ \E m \in CalNodes : cls[m] # "none")
    => FlagsClear(lastNode)

\* C3: at the moment a maintain run starts, every node reachable from its
\* root has discovered = false and recalibrated = false; and a root without
\* dependents whose validity window has elapsed at the start of the run has
\* its data checked in that run (its table is not empty, so the quick check
\* reaches a verdict).
C3_FlagsClearAtRunStart ==
  [][lastOp' = "maintain" =>
       /\ FlagsClear(lastNode')
       /\ (TimedOut(lastNode') /\ Len(dependents[lastNode']) = 0)
            => cls'[lastNode'] # "none"]_vars

\* C4: the post-run reset leaves calibration_failed of every node unchanged.
\* A maintain on a root that is already discovered runs nothing but the reset.
C4_ResetKeepsFailed ==
  [][(lastOp' = "maintain" /\ discovered[lastNode'])
       => calibration_failed' = calibration_failed]_vars

\* the reset has run over a node whose calibration_failed is set
C4_Witness ==
  /\ lastOp = "maintain" /\ exc = "none"
  /\ \E m \in Reach(lastNode) : calibration_failed[m]

\* C5: calibration_failed of a node changes only inside calibrate() on that
\* node: to true only when that calibrate fails, to false only when it
\* succeeds.
C5_FailedOnlyByCalibrate ==
  [][\A n \in CalNodes :
       calibration_failed'[n] # calibration_failed[n] =>
         IF calibration_failed'[n] THEN cal'[n] = "failed"
                                   ELSE cal'[n] = "ok"]_vars

\* a calibrate has failed and left the flag set
C5_Witness ==
  /\ lastOp = "calibrate" /\ exc = "CalibrationFailure"
  /\ cal[lastNode] = "failed" /\ calibration_failed[lastNode]

\* C6: a calibrate() whose scan is good and whose fit succeeds leaves
\* calibration_failed = false and returns the fitted values, one per param
\* key, in order.
C6_SuccessClearsFailed ==
  (lastOp = "calibrate" /\ cal[lastNode] = "ok") =>
    /\ ~calibration_failed[lastNode]
    /\ exc = "none"
    /\ \A i \in 1..Len(param_keys) : retvals[param_keys[i]] = fitted[i]

\* C7: check_state() returns false whenever now - last stored timestamp
\* exceeds the validity window, whatever the other conditions.
C7_TimedOutFailsCheck ==
  \A n \in nodes :
    TimedOut(n) =>
      /\ check_state(Cur, n).exc = "none"
      /\ check_state(Cur, n).ret = "False"

\* maintain has evaluated check_state on a timed-out node whose
\* calibration_failed is false, and went on to check its data
C7_Witness ==
  /\ lastOp = "maintain" /\ TimedOut(lastNode)
  /\ ~calibration_failed[lastNode] /\ cls[lastNode] # "none"

\* C8: a diagnose() whose quick scan is in spec returns false, appends exactly
\* one row whose values equal those of the previously latest row, and leaves
\* recalibrated false.
C8_InSpecRefreshesRow ==
  [][(lastOp' = "diagnose" /\ cls'[lastNode'] = "IN") =>
       /\ exc' = "none" /\ ret' = "False"
       /\ Len(history'[lastNode']) = Len(history[lastNode']) + 1
       /\ Last(history'[lastNode']).vals = Last(history[lastNode']).vals
       /\ ~recalibrated'[lastNode']]_vars

\* C9: a diagnose() whose quick scan is out of spec runs the full calibration;
\* when that fit succeeds, diagnose() returns true, the new row holds the
\* fitted values and recalibrated is true.
C9_OutOfSpecRecalibrates ==
  (lastOp = "diagnose" /\ cls[lastNode] = "OUT") =>
    /\ cal[lastNode] # "none"
    /\ cal[lastNode] = "ok" =>
         /\ exc = "none" /\ ret = "True"
         /\ recalibrated[lastNode]
         /\ Last(history[lastNode]).vals = zip_dict(param_keys, fitted)

\* C10: a diagnose() whose quick scan is bad data, on a node all of whose
\* dependents are in spec when diagnosed (or that has no dependents), fails
\* with DiagnoseFailure naming that node and appends no row for that node.
C10_UnexplainedBadData ==
  [][(/\ lastOp' = "diagnose" /\ cls'[lastNode'] = "BAD"
      /\ \A i \in 1..Len(dependents[lastNode']) :
           /\ dependents[lastNode'][i] \in CalNodes
           /\ cls'[dependents[lastNode'][i]] = "IN")
       => /\ exc' = "DiagnoseFailure" /\ node_failed' = lastNode'
          /\ history'[lastNode'] = history[lastNode']]_vars

\* the last call asked the strategy of node n this question and got this answer
Answered(n, method, answer) ==
  \E i \in 1..Len(strategy_calls) : strategy_calls[i] = Call(n, method, answer)

\* the last call called analyze of node n
Analyzed(n) == Answered(n, "analyze", "True") \/ Answered(n, "analyze", "False")

\* C11: a calibrate() whose full scan is judged bad data sets
\* calibration_failed = true and fails with CalibrationFailure, without
\* calling analyze.
C11_BadDataFailsCalibrate ==
  (lastOp = "calibrate" /\ Answered(lastNode, "bad_data", "True")) =>
    /\ calibration_failed[lastNode]
    /\ exc = "CalibrationFailure"
    /\ ~Analyzed(lastNode)

\* a calibrate has met bad data
C11_Witness ==
  /\ lastOp = "calibrate" /\ Answered(lastNode, "bad_data", "True")
  /\ exc = "CalibrationFailure"

\* C12: a calibrate() whose analyze result has succeeded = false sets
\* calibration_failed = true and fails with CalibrationFailure.
C12_FailedFitFailsCalibrate ==
  (lastOp = "calibrate" /\ Answered(lastNode, "analyze", "False")) =>
    /\ calibration_failed[lastNode]
    /\ exc = "CalibrationFailure"

\* C13: MaintainFailure is the only failure type that escapes a top-level
\* maintain.
C13_OnlyMaintainFailureEscapes ==
  (lastOp = "maintain" /\ exc # "none") => exc = "MaintainFailure"

\* C14: a DiagnoseFailure raised in the diagnose of a top-level maintain run
\* does not reach the caller as a DiagnoseFailure: the caller gets a
\* MaintainFailure.
C14_DiagnoseFailureConverted ==
  (lastOp = "maintain" /\ diag_failed # "none") =>
    /\ exc # "DiagnoseFailure"
    /\ exc = "MaintainFailure"

\* C15: the failure a failed top-level maintain ends with is a MaintainFailure
\* that names the node whose diagnosis failed.
C15_MaintainFailureNamesNode ==
  (lastOp = "maintain" /\ diag_failed # "none") =>
    (exc = "MaintainFailure" /\ node_failed = diag_failed)


\* ------------------------------------------------------- graph construction
\* autocal/parsing/dag_parser.py and QubitCal/parsing/dag_parser.py

\* the names a configuration defines and a name none defines
SortNames == {"a", "b", "c"}
Missing == "z"

RECURSIVE Perms(_)
\* every order dag_dict.keys() can iterate the names of S in
Perms(S) ==
  IF S = {} THEN {<< >>}
  ELSE UNION {{<<x>> \o p : p \in Perms(S \ {x})} : x \in S}

\* the lists of names one entry of dag_dict can hold
DepLists ==
  UNION {{q \in [1..k -> SortNames \cup {Missing}] :
            \A i, j \in 1..k : i # j => q[i] # q[j]} : k \in 0..MaxDeps}

\* the state of one run: the marks, the list built so far and the error
SortStart(v) == [NoSort EXCEPT !.variant = v]

RECURSIVE visit(_, _, _)
RECURSIVE visit_all(_, _, _, _)

\* visit without the test of the temporary mark; the run is cut at a node that
\* is being visited, which the code could only leave by recursing for ever
visit_no_cycle_check(d, s, node) ==
  IF node \in s.perm \/ node \in s.temp THEN s
  ELSE LET s1 == [s EXCEPT !.temp = @ \cup {node}] IN
       IF node \notin DOMAIN d THEN [s1 EXCEPT !.exc = "KeyError"]
       ELSE LET r == visit_all(d, s1, node, 1) IN
            IF r.exc # "none" THEN r
            ELSE [r EXCEPT !.temp = @ \ {node}, !.perm = @ \cup {node},
                           !.sorted = Append(@, node)]

\* the loop of visit with the KeyError caught by the outermost visit only,
\* which then names itself as the referrer
visit_all_reports_root(d, s, node, i) ==
  IF i > Len(d[node]) THEN s
  ELSE LET n == d[node][i]
           r == visit(d, s, n)
       IN IF r.exc = "KeyError" /\ Cardinality(s.temp) = 1
          THEN [r EXCEPT !.exc = "ParsingFailure", !.kind = "unresolved",
                         !.referrer = node, !.missing = n]
          ELSE IF r.exc # "none" THEN r
          ELSE visit_all(d, r, node, i + 1)

\* visit that leaves the temporary mark on a node it has finished
visit_keeps_temporary_mark(d, s, node) ==
  IF node \in s.perm THEN s
  ELSE IF node \in s.temp
  THEN [s EXCEPT !.exc = "ParsingFailure", !.kind = "cycle", !.loop = s.temp]
  ELSE LET s1 == [s EXCEPT !.temp = @ \cup {node},
                           !.path = Append(@, node)] IN
       IF node \notin DOMAIN d THEN [s1 EXCEPT !.exc = "KeyError"]
       ELSE LET r == visit_all(d, s1, node, 1) IN
            IF r.exc # "none" THEN r
            ELSE [r EXCEPT !.perm = @ \cup {node},
                           !.sorted = Append(@, node),
                           !.path = SubSeq(@, 1, Len(@) - 1)]

\* visit(node, temporary_mark, permanent_mark); the marks and the list are
\* shared by every call, so they are threaded through the state s; path is
\* the stack of the calls of visit that have not returned
visit(d, s, node) ==
  IF node \in s.perm THEN s
  ELSE IF node \in s.temp
  THEN [s EXCEPT !.exc = "ParsingFailure", !.kind = "cycle", !.loop = s.temp]
  ELSE LET s1 == [s EXCEPT !.temp = @ \cup {node},
                           !.path = Append(@, node)] IN
       \* dag_dict[node] of a name that is no key raises KeyError
       IF node \notin DOMAIN d THEN [s1 EXCEPT !.exc = "KeyError"]
       ELSE LET r == visit_all(d, s1, node, 1) IN
            IF r.exc # "none" THEN r
            ELSE [r EXCEPT !.temp = @ \ {node}, !.perm = @ \cup {node},
                           !.sorted = Append(@, node),
                           !.path = SubSeq(@, 1, Len(@) - 1)]

\* the loop "for n in dag_dict[node]" from its i-th element on
visit_all(d, s, node, i) ==
  IF i > Len(d[node]) THEN s
  ELSE LET n == d[node][i]
           r == visit(d, s, n)
       IN IF r.exc = "KeyError"
          THEN [r EXCEPT !.exc = "ParsingFailure", !.kind = "unresolved",
                         !.referrer = node, !.missing = n]
          ELSE IF r.exc # "none" THEN r
          ELSE visit_all(d, r, node, i + 1)

RECURSIVE sort_keys(_, _, _, _)
\* the loop "for key in dag_dict.keys()" from its i-th key on
sort_keys(keys, d, s, i) ==
  IF i > Len(keys) \/ s.exc # "none" THEN s
  ELSE sort_keys(keys, d, visit(d, s, keys[i]), i + 1)

\* autocal's topological_sort
topological_sort(keys, d) == sort_keys(keys, d, SortStart("autocal"), 1)

\* QubitCal's topological_sort: its visit assigns temporary_mark and
\* permanent_mark (|=), which makes them local to visit, so the first test
\* "node in permanent_mark" reads an unbound local
topological_sort_legacy(keys, d) ==
  IF keys = << >> THEN SortStart("QubitCal")
  ELSE [SortStart("QubitCal") EXCEPT !.exc = "UnboundLocalError"]

\* a dag_dict is given, nothing is sorted yet
SortInit ==
  /\ EngineStart(NoGraph)
  /\ dag_keys \in Perms(SortNames)
  /\ dag_dict \in [SortNames -> DepLists]
  /\ sort_out = NoSort
  /\ nodes_config = << >>
  /\ NoBuild
  /\ NoFit
  /\ NoText

TopologicalSort ==
  /\ sort_out.variant = "none"
  /\ sort_out' = topological_sort(dag_keys, dag_dict)
  /\ UNCHANGED <<dag_keys, dag_dict, nodes_config, dag_container, build_exc,
                 param_text, parse_out>>
  /\ UNCHANGED engine_vars

TopologicalSortLegacy ==
  /\ sort_out.variant = "none"
  /\ sort_out' = topological_sort_legacy(dag_keys, dag_dict)
  /\ UNCHANGED <<dag_keys, dag_dict, nodes_config, dag_container, build_exc,
                 param_text, parse_out>>
  /\ UNCHANGED engine_vars

SortNext == TopologicalSort \/ TopologicalSortLegacy

SpecSort == SortInit /\ [][SortNext]_vars

\* the listed names that are keys
Listed(n) == {dag_dict[n][i] : i \in 1..Len(dag_dict[n])}

RECURSIVE Closure(_, _)
\* the names reached from the set S along k more edges at most
Closure(S, k) ==
  IF k = 0 THEN S
  ELSE Closure(S \cup UNION {Listed(m) : m \in S \cap DOMAIN dag_dict}, k - 1)

\* the names n reaches along one edge or more
Descendants(n) == Closure(Listed(n), Cardinality(DOMAIN dag_dict))

HasCycle == \E n \in DOMAIN dag_dict : n \in Descendants(n)
AllResolved == \A n \in DOMAIN dag_dict : Listed(n) \subseteq DOMAIN dag_dict
Sorted == sort_out.variant # "none"

\* the place of node n in the returned list (0 when absent)
IndexOf(n) ==
  IF \E i \in 1..Len(sort_out.sorted) : sort_out.sorted[i] = n
  THEN CHOOSE i \in 1..Len(sort_out.sorted) : sort_out.sorted[i] = n
  ELSE 0

\* the call returned a list that holds each key once, every listed name
\* before the name that lists it
ReturnsOrder ==
  /\ sort_out.exc = "none"
  /\ Len(sort_out.sorted) = Cardinality(DOMAIN dag_dict)
  /\ \A n \in DOMAIN dag_dict : IndexOf(n) # 0
  /\ \A u \in DOMAIN dag_dict : \A v \in Listed(u) : IndexOf(v) < IndexOf(u)

\* C16: for every acyclic graph whose names are all defined, topological_sort
\* returns each node exactly once, and for each edge u -> v it places v
\* before u; this is claimed of both variants of the function
C16_SortsAcyclicGraph ==
  (Sorted /\ ~HasCycle /\ AllResolved) => ReturnsOrder

\* the same statement of autocal's variant alone
AutocalSortsAcyclicGraph ==
  (sort_out.variant = "autocal" /\ ~HasCycle /\ AllResolved) => ReturnsOrder

CycleError == sort_out.exc = "ParsingFailure" /\ sort_out.kind = "cycle"
UnresolvedError == sort_out.exc = "ParsingFailure" /\ sort_out.kind = "unresolved"
SortedByAutocal == sort_out.variant = "autocal"

\* C17 as stated: for every input graph that contains a cycle (a self-loop
\* included), whatever the order of the keys, topological_sort fails with the
\* cycle error
C17_CycleGivesCycleError ==
  (SortedByAutocal /\ HasCycle) => CycleError

\* C17 amended: for every input graph that contains a cycle, whatever the order
\* of the keys, topological_sort fails and returns no order; the failure is
\* the cycle error when every listed name is a key of the input (a name that
\* is no key can be met first and is then reported instead)
C17_CycleAlwaysFails ==
  (SortedByAutocal /\ HasCycle) =>
    /\ sort_out.exc = "ParsingFailure"
    /\ AllResolved => CycleError

\* a cycle through two nodes was reported, after a first key that is on no cycle
C17_Witness ==
  /\ SortedByAutocal /\ HasCycle /\ AllResolved /\ CycleError
  /\ dag_keys[1] \notin Descendants(dag_keys[1])
  /\ \A n \in DOMAIN dag_dict : n \notin Listed(n)

\* the error names a node that itself lists the missing name, and a name that
\* is no key of the input
NamesDirectReferrer ==
  /\ sort_out.referrer \in DOMAIN dag_dict
  /\ sort_out.missing \in Listed(sort_out.referrer)
  /\ sort_out.missing \notin DOMAIN dag_dict

\* C18 as stated: when some node lists a name that is no key of the input,
\* topological_sort fails with the unresolved-dependency error, which names
\* the node that lists the missing name and the missing name
C18_MissingNameGivesUnresolved ==
  (SortedByAutocal /\ ~AllResolved) => (UnresolvedError /\ NamesDirectReferrer)

\* C18 amended: when some node lists a name that is no key of the input,
\* topological_sort fails; in a graph without a cycle the failure is the
\* unresolved-dependency error (with a cycle, the cycle can be met first and
\* reported instead); whenever the unresolved-dependency error is raised it
\* names the node that itself lists the missing name, and the missing name
C18_MissingNameAlwaysFails ==
  (SortedByAutocal /\ ~AllResolved) =>
    /\ sort_out.exc = "ParsingFailure"
    /\ ~HasCycle => UnresolvedError
    /\ UnresolvedError => NamesDirectReferrer

\* the missing name was met two levels below the key the sort started from,
\* and the error names the node in between, not that key
C18_Witness ==
  /\ SortedByAutocal /\ ~AllResolved /\ ~HasCycle /\ UnresolvedError
  /\ NamesDirectReferrer
  /\ sort_out.sorted = << >>
  /\ sort_out.referrer # dag_keys[1]
  /\ sort_out.missing \notin Listed(dag_keys[1])

\* ------------------------------------------------------------------ dict2dag
\* the sections of the configuration besides Base, and a parameter name that
\* no node has
ConfigNames == {"N1", "N2"}
NoParam == "x"

\* a dependent parameter "node - param", as parse_param splits it
Refs == [node : {"Base"} \cup ConfigNames, param : {"a", NoParam}]
parse_param(ref) == <<ref.node, ref.param>>

\* the lists config["dependent parameters"] can hold
RefLists ==
  UNION {{q \in [1..k -> Refs] : \A i, j \in 1..k : i # j => q[i] # q[j]} :
           k \in 0..MaxDeps}

Range(q) == {q[i] : i \in 1..Len(q)}

\* the set {parse_param(s)[0] for s in config["dependent parameters"]}
DependentNames(refs) == {parse_param(refs[i])[1] : i \in 1..Len(refs)}

RECURSIVE DagDictsOver(_, _)
\* dag_dict["Base"] = list(), then one entry per name of the set names
DagDictsOver(cfg, names) ==
  IF names = {} THEN {"Base" :> << >>}
  ELSE LET n == CHOOSE x \in names : TRUE IN
       {d @@ (n :> q) : d \in DagDictsOver(cfg, names \ {n}),
                        q \in Perms(DependentNames(cfg.refs[n]))}

\* every dag_dict dict2dag can hand to topological_sort: each entry is a set,
\* which is iterated in an order the program does not control
DagDicts(cfg) == DagDictsOver(cfg, ConfigNames)

\* BaseNode(database, **nodes_config["Base"]) as an entry of dag_container
BaseNode ==
  [name |-> "Base", param_keys |-> param_keys, dependent_param_keys |-> << >>,
   dependents |-> << >>]

\* CalibrationNode(calibration, database, dependents) as an entry of
\* dag_container; the calibration keeps the lists of the configuration
CalibrationNode(name, cfg, deps) ==
  [name |-> name, param_keys |-> param_keys,
   dependent_param_keys |-> cfg.refs[name], dependents |-> deps]

RECURSIVE construct_nodes(_, _, _, _, _)
\* the loop "for nodename in sorted" from its i-th name on; b is the build so
\* far: the container and the error
construct_nodes(cfg, d, sorted, i, b) ==
  IF i > Len(sorted) \/ b.exc # "none" THEN b
  ELSE LET nodename == sorted[i] IN
       IF Range(d[nodename]) \subseteq DOMAIN b.container
       THEN construct_nodes(cfg, d, sorted, i + 1,
              [b EXCEPT !.container =
                 @ @@ (nodename :> CalibrationNode(nodename, cfg, d[nodename]))])
       ELSE [b EXCEPT !.exc = "KeyError"]

\* sorted.remove("Base")
remove(q, x) == SelectSeq(q, LAMBDA y : y # x)

\* dict2dag constructing the Base node before it sorts
dict2dag_builds_base_first(cfg, d) ==
  LET keys == <<"Base">> \o cfg.order
      s == topological_sort(keys, d)
      based == [sort |-> s, exc |-> s.exc, container |-> ("Base" :> BaseNode),
                history |-> insert(Cur, "Base", BaseParams, TRUE).st.history]
  IN IF s.exc # "none" THEN based
     ELSE construct_nodes(cfg, d, remove(s.sorted, "Base"), 1, based)

\* dict2dag once dag_dict is d: the sort, the Base node, then one node per
\* name in sorted order
dict2dag(cfg, d) ==
  LET keys == <<"Base">> \o cfg.order
      s == topological_sort(keys, d)
  IN IF s.exc # "none"
     THEN [sort |-> s, exc |-> s.exc, container |-> << >>, history |-> history]
     ELSE construct_nodes(cfg, d, remove(s.sorted, "Base"), 1,
            [sort |-> s, exc |-> "none", container |-> ("Base" :> BaseNode),
             history |-> insert(Cur, "Base", BaseParams, TRUE).st.history])

\* a configuration is given, nothing is built yet
BuildInit ==
  /\ EngineStart(NoGraph)
  /\ dag_keys = << >>
  /\ dag_dict = << >>
  /\ sort_out = NoSort
  /\ nodes_config \in [order : Perms(ConfigNames), refs : [ConfigNames -> RefLists]]
  /\ NoBuild
  /\ NoFit
  /\ NoText

Dict2Dag ==
  /\ build_exc = "unbuilt"
  /\ \E d \in DagDicts(nodes_config) :
       LET b == dict2dag(nodes_config, d) IN
         /\ dag_keys' = <<"Base">> \o nodes_config.order
         /\ dag_dict' = d
         /\ sort_out' = b.sort
         /\ dag_container' = b.container
         /\ build_exc' = b.exc
         /\ history' = b.history
  /\ UNCHANGED <<nodes_config, param_text, parse_out>>
  /\ UNCHANGED <<nodes, dependents, discovered, recalibrated,
                 calibration_failed, now, cls, cal, lastOp, lastNode, exc, ret,
                 node_failed, retvals, fitted, strategy_calls, diag_failed,
                 events, stack, fit_in, fit_out>>

BuildNext == Dict2Dag

SpecBuild == BuildInit /\ [][BuildNext]_vars

Built == build_exc = "none"

\* the reference names a dependent of node n and a parameter of that dependent
Resolves(n, ref) ==
  /\ parse_param(ref)[1] \in Range(dag_container[n].dependents)
  /\ parse_param(ref)[1] \in DOMAIN dag_container
  /\ parse_param(ref)[2] \in Range(dag_container[parse_param(ref)[1]].param_keys)

\* C19: in every graph built by dict2dag, each dependent_param_keys entry of a
\* node names, by its node part, a node among that node's dependents and, by
\* its parameter part, one of that dependent's param_keys
C19_ReferencesResolve ==
  Built => \A n \in DOMAIN dag_container :
             \A ref \in Range(dag_container[n].dependent_param_keys) :
               Resolves(n, ref)

\* the node part alone: every reference of a built graph names a dependent
ReferencesNameDependents ==
  Built => \A n \in DOMAIN dag_container :
             \A ref \in Range(dag_container[n].dependent_param_keys) :
               parse_param(ref)[1] \in Range(dag_container[n].dependents)

\* C20: the Base node is written to the store once, at construction, and is
\* never measured again: whatever calls have been made, the Base history is
\* the one row written at construction, and no strategy call (scan, bad_data,
\* analyze) has been made on Base
C20_BaseWrittenOnce ==
  /\ history["Base"] = << [timestamp |-> 0, vals |-> BaseParams] >>
  /\ \A i \in 1..Len(strategy_calls) : strategy_calls[i].node # "Base"

\* a maintain run has walked from N1 to its dependent Base, at a later time
\* than the construction
C20_Witness ==
  /\ lastOp = "maintain" /\ lastNode = "N1"
  /\ dependents["N1"] = <<"Base">>
  /\ discovered["N1"]
  /\ now > 0
  /\ Len(history["Base"]) = 1

\* sequence p is the beginning of sequence q
IsPrefix(p, q) == Len(p) <= Len(q) /\ \A i \in 1..Len(p) : q[i] = p[i]

\* C21: the store history of every node is append-only: over every call
\* (maintain, diagnose, calibrate, update_params) the history before the call
\* is a prefix of the history after it; no row is changed or removed
C21_HistoryAppendOnly ==
  [][\A n \in Nodes : IsPrefix(history[n], history'[n])]_vars

\* a maintain or diagnose has added a row to a table that already held one
C21_Witness ==
  /\ lastOp \in {"maintain", "diagnose"}
  /\ \E n \in CalNodes : Len(history[n]) = 2 /\ cls[n] = "IN"

\* the graph is the chain N2 -> N1 -> Base
IsChainToBase ==
  /\ nodes = {"N1", "N2"}
  /\ dependents["N2"] = <<"N1">>
  /\ dependents["N1"] = <<"Base">>

\* every calibration node holds a row whose validity window has not elapsed,
\* and no flag is set
AllFresh ==
  \A n \in nodes :
    /\ Len(history[n]) > 0 /\ ~TimedOut(n)
    /\ ~calibration_failed[n] /\ ~discovered[n] /\ ~recalibrated[n]

\* C22: on the chain N2 -> N1 -> Base, with every validity window unexpired
\* and a strategy that answers in spec to every quick check, maintain on the
\* root N2 scans every calibration node (once), raises no CalibrationFailure
\* and leaves every recalibrated flag false
C22_ChainAllInSpec ==
  [][(/\ lastOp' = "maintain" /\ lastNode' = "N2"
      /\ IsChainToBase /\ AllFresh
      /\ \A n \in nodes : cls'[n] \notin {"BAD", "OUT"})
       => /\ \A n \in nodes : cls'[n] = "IN"
          /\ exc' # "CalibrationFailure"
          /\ \A n \in nodes : ~recalibrated'[n]]_vars

\* ------------------------------------------------- graphs with shared nodes
\* three calibration nodes; in the first two graphs N2 has two consumers (N1
\* and N3), reached first through N1 or first directly; in the third N3 has
\* two dependents that share nothing
DiamondGraphs ==
  { [nodes |-> CalNodes,
     deps |-> [NoDeps EXCEPT !["N3"] = <<"N1", "N2">>, !["N1"] = <<"N2">>]],
    [nodes |-> CalNodes,
     deps |-> [NoDeps EXCEPT !["N3"] = <<"N2", "N1">>, !["N1"] = <<"N2">>]],
    [nodes |-> CalNodes,
     deps |-> [NoDeps EXCEPT !["N3"] = <<"N1", "N2">>]] }

DiamondInit ==
  /\ \E g \in DiamondGraphs : EngineStart(g)
  /\ dag_keys = << >>
  /\ dag_dict = << >>
  /\ sort_out = NoSort
  /\ nodes_config = << >>
  /\ NoBuild
  /\ NoFit
  /\ NoText

\* top-level maintain runs on rows stored at different times
DiamondNext ==
  \/ Tick
  \/ \E n \in nodes : Maintain(n)
  \/ \E n \in nodes : \E d \in SeedDicts : UpdateParams(n, d)

SpecDiamond == DiamondInit /\ [][DiamondNext]_vars

\* how many times step ev on node n occurs in the event list evs
CountIn(evs, ev, n) ==
  Cardinality({i \in 1..Len(evs) : evs[i] = [ev |-> ev, node |-> n]})

\* node.py: within one top-level maintain run the maintain body of each node
\* is executed at most once, and a _maintain call on a node that is already
\* discovered executes nothing of it
MemoizedBodyAtMostOnce ==
  [][lastOp' = "maintain" =>
       \A n \in CalNodes :
         /\ CountIn(events', "body", n) <= 1
         /\ CountIn(events', "check_state", n) <= 1
         /\ discovered[n] =>
              /\ CountIn(events', "body", n) = 0
              /\ CountIn(events', "check_state", n) = 0]_vars

\* before step i of the last call, the maintenance of node v had finished in
\* that call: v was skipped on its check_state, or its diagnose had returned
MaintainedBefore(v, i) ==
  \E j \in 1..(i - 1) :
    /\ events[j].node = v
    /\ events[j].ev \in {"skipped", "diagnosed"}

\* C24: within one top-level maintain run, for every edge (u depends on v),
\* the maintenance of v (its skip decision or its diagnose) has finished
\* before check_state of u is evaluated
C24_DependentsMaintainedFirst ==
  lastOp = "maintain" =>
    \A i \in 1..Len(events) :
      events[i].ev = "check_state" =>
        \A k \in 1..Len(dependents[events[i].node]) :
          MaintainedBefore(dependents[events[i].node][k], i)

\* ------------------------------------------ structure.py: CalibrationNode
\* the earlier CalibrationNode of QubitCal/core/structure.py; it has no
\* discovered flag and its check_data stores nothing

\* structure.py check_data
check_data_legacy(st, n) ==
  LET sc == Log(Log(st, "scan", n), "bad_data", n)
      ts == Log(sc, "test_in_spec", n)
  IN
  UNION {
    IF bad THEN {Ok([sc EXCEPT !.cls[n] = "BAD"], "BAD_DATA")}
    ELSE IF Len(sc.history[n]) = 0 THEN {Raise(sc, "TypeError")}
    ELSE { IF in_spec THEN Ok([ts EXCEPT !.cls[n] = "IN"], "IN_SPEC")
                      ELSE Ok([ts EXCEPT !.cls[n] = "OUT"], "OUT_OF_SPEC")
           : in_spec \in BOOLEAN }
    : bad \in BOOLEAN }

\* structure.py calibrate: as in node.py, without retrieve_dependent_params
calibrate_legacy(st0, n) ==
  LET st == Log(st0, "calibrate", n) IN
  UNION {
    IF bad
    THEN {Raise([st EXCEPT !.calibration_failed[n] = TRUE, !.cal[n] = "failed"],
                "CalibrationFailure")}
    ELSE UNION {
      IF succeeded
      THEN {OkDict([st EXCEPT !.cal[n] = "ok", !.fitted = cp],
                   zip_dict(param_keys, cp)) : cp \in Fits}
      ELSE {Raise([st EXCEPT !.calibration_failed[n] = TRUE,
                             !.cal[n] = "failed"], "AttributeError")}
      : succeeded \in BOOLEAN }
    : bad \in BOOLEAN }

RECURSIVE diagnose_legacy(_, _)
RECURSIVE diagnose_dependents_legacy(_, _, _, _)

\* recalibrated = [n.diagnose() for n in self.dependents], from dependent i on
diagnose_dependents_legacy(st, n, i, any) ==
  IF i > Len(dependents[n])
  THEN {Ok(st, IF any THEN "True" ELSE "False")}
  ELSE UNION { IF r.exc # "none" THEN {r}
               ELSE diagnose_dependents_legacy(r.st, n, i + 1,
                                               any \/ r.ret = "True")
               : r \in diagnose_legacy(st, dependents[n][i]) }

\* structure.py diagnose.  `raise DiagnoseFailure()` gives the constructor no
\* node_failed: TypeError.  After OUT_OF_SPEC the local `recalibrated` is
\* unbound.
diagnose_legacy(st, n) ==
  UNION {
    IF r.exc # "none" THEN {r}
    ELSE IF r.ret = "IN_SPEC" THEN {Ok(Log(r.st, "diagnosed", n), "False")}
    ELSE IF r.ret = "BAD_DATA"
    THEN UNION {
           IF q.exc # "none" THEN {q}
           ELSE IF q.ret = "False" THEN {Raise(q.st, "TypeError")}
           ELSE UNION { IF c.exc # "none" THEN {c}
                        ELSE LET u == update_params(c.st, n, c.vals, TRUE)
                             IN {Ok(Log(u.st, "diagnosed", n), "True")}
                        : c \in calibrate_legacy(q.st, n) }
           : q \in diagnose_dependents_legacy(r.st, n, 1, FALSE) }
    ELSE {Raise(r.st, "UnboundLocalError")}
    : r \in check_data_legacy(Log(st, "diagnose", n), n) }

RECURSIVE maintain_legacy(_, _)
RECURSIVE maintain_dependents_legacy(_, _, _)

\* for n in self.dependents: n.maintain(), from dependent i on
maintain_dependents_legacy(st, n, i) ==
  IF i > Len(dependents[n]) THEN {Ok(st, "None")}
  ELSE UNION { IF r.exc # "none" THEN {r}
               ELSE maintain_dependents_legacy(r.st, n, i + 1)
               : r \in maintain_legacy(st, dependents[n][i]) }

\* structure.py maintain: every call runs the body; the result of diagnose (a
\* bool) never equals DiagnoseResult.FAILURE
maintain_legacy(st, n) ==
  UNION {
    IF m.exc # "none" THEN {m}
    ELSE LET c == check_state(Log(m.st, "check_state", n), n)
         IN IF c.exc # "none" THEN {c}
            ELSE IF c.ret = "True" THEN {Ok(Log(c.st, "skipped", n), "None")}
            ELSE UNION { IF d.exc # "none" THEN {d} ELSE {Ok(d.st, "None")}
                         : d \in diagnose_legacy(
                                   [c.st EXCEPT !.recalibrated[n] = FALSE], n) }
    : m \in maintain_dependents_legacy(Log(st, "body", n), n, 1) }

\* node.maintain() of structure.py
MaintainLegacy(n) ==
  /\ RoomInStore
  /\ \E r \in maintain_legacy(Cur, n) : Done("maintain_legacy", n, r)

LegacyNext ==
  \/ Tick
  \/ \E n \in nodes : MaintainLegacy(n)
  \/ \E n \in nodes : \E d \in SeedDicts : UpdateParams(n, d)

SpecLegacy == DiamondInit /\ [][LegacyNext]_vars

\* C23: within one top-level maintain run, on graphs where a node has two
\* consumers too, the maintain body of each node (maintain the dependents,
\* check_state, diagnose) is executed at most once; this is claimed of
\* maintain of node.py and of maintain of structure.py
C23_BodyAtMostOnce ==
  lastOp \in {"maintain", "maintain_legacy"} =>
    \A n \in CalNodes :
      /\ CountIn(events, "body", n) <= 1
      /\ CountIn(events, "check_state", n) <= 1

RECURSIVE CheckStateAsClaimed(_)
\* the value claimed for check_state of node n: none of the four reasons holds
CheckStateAsClaimed(n) ==
  /\ ~TimedOut(n)
  /\ ~calibration_failed[n]
  /\ \A i \in 1..Len(dependents[n]) :
       /\ CheckStateAsClaimed(dependents[n][i])
       /\ ~recalibrated[dependents[n][i]]

\* every node reachable from n is a calibration node that holds a row
CheckStateDefined(n) ==
  \A m \in Reach(n) :
    /\ Len(history[m]) > 0
    /\ \A i \in 1..Len(dependents[m]) : dependents[m][i] \in CalNodes

\* C25: check_state() returns true exactly when none of these holds: the
\* validity window of the node has elapsed; its calibration_failed is set;
\* check_state() of some dependent is false; recalibrated of some dependent is
\* true.  In every other case it returns false.
C25_CheckStateExact ==
  \A n \in nodes :
    CheckStateDefined(n) =>
      /\ check_state(Cur, n).exc = "none"
      /\ check_state(Cur, n).ret = "True" <=> CheckStateAsClaimed(n)

\* C26: within one top-level maintain run, when a node v is recalibrated in the
\* run (its quick check is out of spec and the run does not end with a
\* CalibrationFailure of the fresh fit), every node u that depends on v
\* directly and is maintained in the run is diagnosed, not skipped
C26_ConsumerOfRecalibratedDiagnosed ==
  (lastOp = "maintain" /\ exc # "CalibrationFailure") =>
    \A u \in CalNodes :
      \A i \in 1..Len(dependents[u]) :
        (/\ dependents[u][i] \in CalNodes
         /\ cls[dependents[u][i]] = "OUT"
         /\ CountIn(events, "body", u) = 1)
          => /\ CountIn(events, "diagnose", u) >= 1
             /\ CountIn(events, "skipped", u) = 0

\* C27: a node whose check_state() is true when maintain evaluates it (none of
\* the four reasons of C25 holds for it) is Skipped: the run performs no scan
\* on it and appends no row to its history
C27_TrueCheckStateSkips ==
  [][\A n \in nodes :
       (/\ lastOp' = "maintain"
        /\ lastNode' = n
        /\ ~discovered[n]
        /\ CheckStateDefined(n)
        /\ CheckStateAsClaimed(n))
         => /\ CountIn(events', "skipped", n) = 1
            /\ CountIn(events', "scan", n) = 0
            /\ history'[n] = history[n]]_vars

\* C28: when diagnose() classifies the scan of node n as BadData, it invokes
\* diagnose() on every dependent of n; unless the call ends with a
\* DiagnoseFailure (no dependent returned true) or a CalibrationFailure (the
\* fit failed), it has run calibrate() on n, appended the fitted row, set
\* recalibrated and returned true
C28_BadDataUpstreamFix ==
  [][\A n \in nodes :
       (/\ lastOp' = "diagnose"
        /\ lastNode' = n
        /\ cls'[n] = "BAD"
        /\ CheckStateDefined(n)
        /\ Len(dependents[n]) > 0
        /\ exc' \notin {"DiagnoseFailure", "CalibrationFailure"})
         => /\ \A i \in 1..Len(dependents[n]) :
                 CountIn(events', "diagnose", dependents[n][i]) >= 1
            /\ CountIn(events', "calibrate", n) = 1
            /\ CountIn(events', "append", n) = 1
            /\ recalibrated'[n]
            /\ exc' = "none"
            /\ ret' = "True"]_vars

\* step i of the run is an exception raised after some diagnose() was entered
FailedAt(i) ==
  /\ events[i].ev = "raise"
  /\ \E k \in 1..(i - 1) : events[k].ev = "diagnose"

\* C29: once diagnose() (or the calibrate it calls) has failed for a node in a
\* top-level maintain run, the rest of the run performs no scan, no
\* check_state evaluation, no store append and no visit of a further node:
\* the exception only travels up to the caller
C29_FailureAbortsRun ==
  lastOp = "maintain" =>
    \A i \in 1..Len(events) :
      FailedAt(i) =>
        \A j \in (i + 1)..Len(events) : events[j].ev = "raise"

\* a run on a node with two dependents failed in the diagnose of the first:
\* the second dependent was never visited and the root never evaluated
C29_Witness ==
  /\ lastOp = "maintain"
  /\ exc # "none"
  /\ \E u \in nodes :
       /\ lastNode = u
       /\ Len(dependents[u]) = 2
       /\ CountIn(events, "diagnose", dependents[u][1]) = 1
       /\ CountIn(events, "body", dependents[u][2]) = 0
       /\ ~discovered[dependents[u][2]]
       /\ CountIn(events, "check_state", u) = 0

\* dict2dag has been called and has raised
BuildFailed == build_exc \notin {"unbuilt", "none"}

\* C30: when the input graph contains a cycle, dict2dag fails before any node
\* object is constructed and before any store operation: at the failure no
\* BaseNode or CalibrationNode exists and no row has been written
C30_CycleFailsBeforeConstruction ==
  (build_exc # "unbuilt" /\ HasCycle) =>
    /\ build_exc = "ParsingFailure"
    /\ DOMAIN dag_container = {}
    /\ \A n \in Nodes : history[n] = << >>

\* dict2dag has failed on a configuration in which two nodes depend on each
\* other
C30_Witness ==
  /\ BuildFailed
  /\ HasCycle
  /\ "N2" \in Listed("N1")
  /\ "N1" \in Listed("N2")

\* ------------------------------------------------------------ quick check
\* node.check_data() of node.py, called on its own
CheckData(n) ==
  /\ RoomInStore
  /\ \E r \in check_data(Cur, n) : Done("check_data", n, r)

\* node.check_data() of structure.py, called on its own
CheckDataLegacy(n) ==
  \E r \in check_data_legacy(Cur, n) : Done("check_data_legacy", n, r)

\* quick checks of either implementation on rows stored at different times
CheckNext ==
  \/ Tick
  \/ \E n \in nodes : CheckData(n)
  \/ \E n \in nodes : CheckDataLegacy(n)
  \/ \E n \in nodes : \E d \in SeedDicts : UpdateParams(n, d)

SpecCheck == Init /\ [][CheckNext]_vars

\* the class the strategy's answers give the scan of the last quick check
Classified(c) ==
  CASE c = "BAD" -> "BAD_DATA"
    [] c = "IN" -> "IN_SPEC"
    [] c = "OUT" -> "OUT_OF_SPEC"
    [] OTHER -> "none"

\* C31: a quick check of a node that holds a row makes exactly one scan and
\* classifies it into exactly one of BadData, InSpec, OutOfSpec, the class its
\* answers give; the bad-data test comes first: when bad_data(scan) is true
\* the result is BadData, test_in_spec is not consulted and no row is appended
C31_QuickCheckClassifies ==
  [][(/\ lastOp' \in {"check_data", "check_data_legacy"}
      /\ history[lastNode'] # << >>
      /\ CountIn(events', "scan", lastNode') >= 1)
       => /\ CountIn(events', "scan", lastNode') = 1
          /\ CountIn(events', "bad_data", lastNode') = 1
          /\ exc' = "none"
          /\ ret' \in {"BAD_DATA", "IN_SPEC", "OUT_OF_SPEC"}
          /\ ret' = Classified(cls'[lastNode'])
          /\ cls'[lastNode'] = "BAD" =>
               /\ CountIn(events', "test_in_spec", lastNode') = 0
               /\ history' = history]_vars

\* the nodes whose visit had not returned when the sort stopped
InProgress == Range(sort_out.path)

\* the calls in progress follow edges of the graph, and the node visited last
\* lists a node that is still in progress
PathClosesCycle ==
  /\ \A i \in 1..(Len(sort_out.path) - 1) :
       sort_out.path[i + 1] \in Listed(sort_out.path[i])
  /\ sort_out.path # << >>
  /\ Listed(sort_out.path[Len(sort_out.path)]) \cap InProgress # {}

\* C32: when topological_sort detects a cycle, the nodes named in the failure
\* are exactly the nodes in progress on the current DFS path: every node of
\* the cycle is among them and no finished node is
C32_CycleErrorNamesPath ==
  (SortedByAutocal /\ CycleError) =>
    /\ sort_out.loop = InProgress
    /\ PathClosesCycle
    /\ sort_out.loop \cap sort_out.perm = {}

\* a cycle was detected below a node outside it, after another node was
\* finished
C32_Witness ==
  /\ SortedByAutocal /\ CycleError
  /\ sort_out.perm # {}
  /\ Cardinality(sort_out.loop) >= 2
  /\ sort_out.path[1] \notin Descendants(sort_out.path[1])

\* ------------------------------------------------------ reference parsing
\* a string is the sequence of its characters
Chars == {"a", "b", " ", "-"}
Texts == UNION {[1..k -> Chars] : k \in 0..MaxText}

\* the places of character c in string t
Places(t, c) == {i \in 1..Len(t) : t[i] = c}

RECURSIVE split(_, _)
\* str.split(sep): the parts between the separators, one more than there are
\* separators
split(t, sep) ==
  IF Places(t, sep) = {} THEN <<t>>
  ELSE LET i == CHOOSE j \in Places(t, sep) : \A k \in Places(t, sep) : j <= k
       IN <<SubSeq(t, 1, i - 1)>> \o split(SubSeq(t, i + 1, Len(t)), sep)

RECURSIVE strip(_)
\* str.strip(): without the blanks at either end
strip(t) ==
  IF t # << >> /\ t[1] = " " THEN strip(Tail(t))
  ELSE IF t # << >> /\ t[Len(t)] = " " THEN strip(SubSeq(t, 1, Len(t) - 1))
  ELSE t

\* a call of variant v that returned the list r / that raised e
Parsed(v, r) == [variant |-> v, exc |-> "none", ret |-> r]
ParseRaise(v, e) == [variant |-> v, exc |-> e, ret |-> << >>]

\* parse_param cutting the string at its first separator only
parse_param_splits_once(t) ==
  LET list == split(t, "-") IN
  IF Len(list) < 2 THEN ParseRaise("autocal", "ParsingFailure")
  ELSE Parsed("autocal",
              <<strip(list[1]), strip(SubSeq(t, Len(list[1]) + 2, Len(t)))>>)

\* autocal's parse_param: split, strip every part, then count the parts
parse_param_text(t) ==
  LET raw == split(t, "-")
      list == [i \in 1..Len(raw) |-> strip(raw[i])]
  IN IF Len(list) # 2 THEN ParseRaise("autocal", "ParsingFailure")
     ELSE Parsed("autocal", list)

\* CalibrationNode.parse_param_key: split, count the parts, then strip them
parse_param_key(key) ==
  LET raw == split(key, "-")
  IN IF Len(raw) # 2 THEN ParseRaise("node", "Exception")
     ELSE Parsed("node", [i \in 1..Len(raw) |-> strip(raw[i])])

\* a string is given, nothing is parsed yet
ParseInit ==
  /\ EngineStart(NoGraph)
  /\ dag_keys = << >>
  /\ dag_dict = << >>
  /\ sort_out = NoSort
  /\ nodes_config = << >>
  /\ NoBuild
  /\ NoFit
  /\ param_text \in Texts
  /\ parse_out = NoParse

ParseParam ==
  /\ parse_out.variant = "none"
  /\ parse_out' = parse_param_text(param_text)
  /\ UNCHANGED <<dag_keys, dag_dict, sort_out, nodes_config, dag_container,
                 build_exc, param_text>>
  /\ UNCHANGED engine_vars

ParseParamKey ==
  /\ parse_out.variant = "none"
  /\ parse_out' = parse_param_key(param_text)
  /\ UNCHANGED <<dag_keys, dag_dict, sort_out, nodes_config, dag_container,
                 build_exc, param_text>>
  /\ UNCHANGED engine_vars

ParseNext == ParseParam \/ ParseParamKey

SpecParse == ParseInit /\ [][ParseNext]_vars

\* string t has no blank at either end
Trimmed(t) == t = << >> \/ (t[1] # " " /\ t[Len(t)] # " ")
\* string t holds blanks only
Blank(t) == \A i \in 1..Len(t) : t[i] = " "
\* string r is string t without the blanks around it
IsStripOf(r, t) ==
  /\ Trimmed(r)
  /\ \E i \in 0..Len(t) : \E j \in i..Len(t) :
       /\ Blank(SubSeq(t, 1, i))
       /\ r = SubSeq(t, i + 1, j)
       /\ Blank(SubSeq(t, j + 1, Len(t)))

\* C33: a reference with exactly one separator yields [node name, parameter
\* name], the text before and the text after the separator with the blanks
\* around them removed; a reference with no separator or with two or more
\* fails with the malformed-reference error and yields no result
C33_ReferenceParsing ==
  parse_out.variant # "none" =>
    IF Cardinality(Places(param_text, "-")) = 1
    THEN LET i == CHOOSE j \in Places(param_text, "-") : TRUE IN
         /\ parse_out.exc = "none"
         /\ Len(parse_out.ret) = 2
         /\ IsStripOf(parse_out.ret[1], SubSeq(param_text, 1, i - 1))
         /\ IsStripOf(parse_out.ret[2],
                      SubSeq(param_text, i + 1, Len(param_text)))
    ELSE /\ parse_out.exc =
              (IF parse_out.variant = "autocal" THEN "ParsingFailure"
                                                ELSE "Exception")
         /\ parse_out.ret = << >>

\* "a- b" has been parsed into the names a and b, as in test_helpers
C33_Witness ==
  /\ parse_out.variant = "autocal"
  /\ parse_out.exc = "none"
  /\ param_text = <<"a", "-", " ", "b">>
  /\ parse_out.ret = <<<<"a">>, <<"b">>>>

\* C34: every successful calibrate(), called on its own or from diagnose,
\* appends exactly one new row to the history of its node, and the row maps
\* each param key to its fitted value
C34_SuccessfulCalibrateAppends ==
  [][\A n \in CalNodes :
       cal'[n] = "ok" =>
         /\ Len(history'[n]) = Len(history[n]) + 1
         /\ \A i \in 1..Len(param_keys) :
              Last(history'[n]).vals[param_keys[i]] = fitted'[i]]_vars

\* the last call ran the full calibration of node n, the fit succeeded and
\* the fitted row was stored
FreshFit(n) ==
  /\ CountIn(events, "calibrate", n) >= 1
  /\ cal[n] = "ok"
  /\ CountIn(events, "append", n) >= 1

Levels == 0..MaxLevel
\* how a call of curve_fit ends: it returns, or raises what fit catches
CurveFits == {"popt", "ValueError", "OptimizeWarning", "RuntimeError"}

\* a data set, by what the strategy computes from it: std(y_data) against the
\* bad-data threshold, its largest distance to the baseline against the
\* tolerance, and how curve_fit ends on it
DataSets ==
  [std_var : Levels, bad_data_threshold : Levels,
   max_relative_error : Levels, tolerance : Levels, curve_fit : CurveFits]

\* PhysicalCalibration.bad_data
bad_data(d) == ~(d.std_var > d.bad_data_threshold)

bad_data_result ==
  [bad_data |-> TRUE, succeeded |-> FALSE,
   error_message |-> "bad data detected"]

succeeded_result ==
  [bad_data |-> TRUE, succeeded |-> TRUE, error_message |-> ""]

regression_error_result(error_message) ==
  [bad_data |-> FALSE, succeeded |-> FALSE, error_message |-> error_message]

\* PhysicalCalibration.fit
fit(d) ==
  IF bad_data(d) THEN bad_data_result
  ELSE IF d.curve_fit = "popt" THEN succeeded_result
  ELSE regression_error_result(d.curve_fit)

\* PhysicalCalibration.test_in_spec
test_in_spec(d) ==
  IF bad_data(d) THEN [bad_data |-> TRUE, in_spec |-> FALSE]
  ELSE IF d.max_relative_error < d.tolerance
  THEN [bad_data |-> FALSE, in_spec |-> TRUE]
  ELSE [bad_data |-> FALSE, in_spec |-> FALSE]

\* a data set has been acquired, no method has been called on it
FitInit ==
  /\ EngineStart(NoGraph)
  /\ dag_keys = << >>
  /\ dag_dict = << >>
  /\ sort_out = NoSort
  /\ nodes_config = << >>
  /\ NoBuild
  /\ NoText
  /\ fit_in \in DataSets
  /\ fit_out = [method |-> "none"]

\* the variables fit and test_in_spec leave alone
FitFrame ==
  /\ UNCHANGED <<nodes, dependents, discovered, recalibrated,
                 calibration_failed, history, now, cls, cal, lastOp, lastNode,
                 exc, ret, node_failed, retvals, fitted, strategy_calls,
                 diag_failed, events, stack, fit_in>>
  /\ UNCHANGED build_vars

Fit ==
  /\ fit_out.method = "none"
  /\ fit_out' = [method |-> "fit", result |-> fit(fit_in)]
  /\ FitFrame

TestInSpec ==
  /\ fit_out.method = "none"
  /\ fit_out' = [method |-> "test_in_spec", result |-> test_in_spec(fit_in)]
  /\ FitFrame

FitNext == Fit \/ TestInSpec

SpecFit == FitInit /\ [][FitNext]_vars

\* C36: in every result of fit and of test_in_spec the bad_data field is true
\* if and only if bad_data(x_data, y_data) judged the data corrupted, and no
\* result has bad_data true together with succeeded or in_spec true
C36_BadDataFieldExact ==
  fit_out.method # "none" =>
    /\ fit_out.result.bad_data <=> bad_data(fit_in)
    /\ fit_out.method = "fit" =>
         ~(fit_out.result.bad_data /\ fit_out.result.succeeded)
    /\ fit_out.method = "test_in_spec" =>
         ~(fit_out.result.bad_data /\ fit_out.result.in_spec)

\* ------------------------------------------------- a maintain run in steps
\* a call of method fn on node n: where it stands (pc), the index of its loop
\* over the dependents (i), any(recalibrated) so far (any), its argument reset
Frame(fn, n, reset) ==
  [fn |-> fn, node |-> n, pc |-> "start", i |-> 1, any |-> FALSE,
   reset |-> reset]

\* the call being executed and the calls waiting for it
Top == stack[Len(stack)]
Callers == SubSeq(stack, 1, Len(stack) - 1)

\* the step leaves the program in st with the calls stk open
Out(st, stk) == [st |-> st, stack |-> stk, exc |-> "none"]

\* the step raises e: no call of the run catches it, except that _maintain
\* turns a DiagnoseFailure into the construction of a MaintainFailure, which
\* raises TypeError
Thrown(st, e) ==
  [st |-> st, stack |-> << >>,
   exc |-> IF e = "DiagnoseFailure" THEN "TypeError" ELSE e]

\* the call being executed goes on at pc
Goto(st, pc) == Out(st, [stack EXCEPT ![Len(stack)].pc = pc])

\* the call being executed, left as f, calls fn on node n
Enter(st, f, fn, n) ==
  IF Len(stack) < MaxDepth
  THEN {Out(st, Append([stack EXCEPT ![Len(stack)] = f], Frame(fn, n, FALSE)))}
  ELSE {}

\* the call being executed returns; a diagnose called by diagnose hands its
\* result v to the list its caller is building
Return(st, v) ==
  IF Callers # << >> /\ Top.fn = "diagnose"
     /\ Callers[Len(Callers)].fn = "diagnose"
  THEN Out(st, [Callers EXCEPT ![Len(Callers)].any = @ \/ v])
  ELSE Out(st, Callers)

\* the node the i-th turn of the loops over self.dependents calls
callee_cycles(n, i) == n
callee(n, i) == dependents[n][i]

\* one step of _maintain (node.py:154-174)
step_maintain(st) ==
  LET f == Top
      n == f.node
  IN CASE f.pc = "start" ->
            IF st.discovered[n] THEN {Goto(st, "end")}
            ELSE {Goto([st EXCEPT !.discovered[n] = TRUE], "deps")}
       [] f.pc = "deps" ->
            IF f.i > Len(dependents[n]) THEN {Goto(st, "check")}
            ELSE IF callee(n, f.i) = "Base" THEN {Thrown(st, "AttributeError")}
            ELSE Enter(st, [f EXCEPT !.i = f.i + 1], "_maintain",
                       callee(n, f.i))
       [] f.pc = "check" ->
            LET c == check_state(st, n) IN
            IF c.exc # "none" THEN {Thrown(st, c.exc)}
            ELSE IF c.ret = "True" THEN {Return(st, FALSE)}
            ELSE Enter(st, [f EXCEPT !.pc = "end"], "diagnose", n)
       [] f.pc = "end" ->
            IF f.reset
            THEN Enter(st, [f EXCEPT !.pc = "return"], "reset_flags", n)
            ELSE {Return(st, FALSE)}
       [] OTHER -> {Return(st, FALSE)}

\* one step of diagnose (node.py:125-143); check_data and the recalibration
\* call no method of another node and are taken as one step each
step_diagnose(st) ==
  LET f == Top
      n == f.node
  IN CASE f.pc = "start" ->
            { IF r.exc # "none" THEN Thrown(r.st, r.exc)
              ELSE IF r.ret = "IN_SPEC" THEN Return(r.st, FALSE)
              ELSE IF r.ret = "BAD_DATA" THEN Goto(r.st, "deps")
              ELSE Thrown(r.st, "UnboundLocalError")
              : r \in check_data(st, n) }
       [] f.pc = "deps" ->
            IF f.i > Len(dependents[n])
            THEN IF f.any THEN {Goto(st, "recalibrate")}
                 ELSE {Thrown(st, "DiagnoseFailure")}
            ELSE IF callee(n, f.i) = "Base" THEN {Thrown(st, "AttributeError")}
            ELSE Enter(st, [f EXCEPT !.i = f.i + 1], "diagnose",
                       callee(n, f.i))
       [] OTHER ->
            { IF r.exc # "none" THEN Thrown(r.st, r.exc)
              ELSE Return(r.st, TRUE)
              : r \in recalibrate(st, n) }

\* one step of reset_flags (node.py:145-150)
step_reset(st) ==
  LET f == Top
      n == f.node
  IN IF f.i > Len(dependents[n])
     THEN {Return([st EXCEPT !.recalibrated[n] = FALSE,
                             !.discovered[n] = FALSE], FALSE)}
     ELSE IF callee(n, f.i) = "Base" THEN {Thrown(st, "AttributeError")}
     ELSE Enter(st, [f EXCEPT !.i = f.i + 1], "reset_flags", callee(n, f.i))

\* what a step of the run leaves alone
RunFrame ==
  /\ UNCHANGED <<nodes, dependents, now, cls, cal, lastOp, lastNode, ret,
                 node_failed, retvals, fitted, strategy_calls, diag_failed,
                 events, fit_in, fit_out>>
  /\ UNCHANGED build_vars

\* the step with outcome o is taken
Taken(o) ==
  /\ stack' = o.stack
  /\ exc' = o.exc
  /\ discovered' = o.st.discovered
  /\ recalibrated' = o.st.recalibrated
  /\ calibration_failed' = o.st.calibration_failed
  /\ history' = o.st.history
  /\ RunFrame

\* node.maintain() is called: _maintain(reset=True) is the only open call
StartRun(n) ==
  /\ stack = << >>
  /\ RoomInStore
  /\ stack' = <<Frame("_maintain", n, TRUE)>>
  /\ exc' = "none"
  /\ lastOp' = "run"
  /\ lastNode' = n
  /\ UNCHANGED <<nodes, dependents, now, cls, cal, ret, node_failed, retvals,
                 fitted, strategy_calls, diag_failed, events, fit_in, fit_out,
                 discovered, recalibrated, calibration_failed, history>>
  /\ UNCHANGED build_vars

StepMaintain ==
  /\ stack # << >> /\ Top.fn = "_maintain"
  /\ \E o \in step_maintain(Cur) : Taken(o)

StepDiagnose ==
  /\ stack # << >> /\ Top.fn = "diagnose"
  /\ \E o \in step_diagnose(Cur) : Taken(o)

StepReset ==
  /\ stack # << >> /\ Top.fn = "reset_flags"
  /\ \E o \in step_reset(Cur) : Taken(o)

RunStep == StepMaintain \/ StepDiagnose \/ StepReset

\* between two runs the clock advances and callers store first rows
RunNext ==
  \/ stack = << >> /\ Tick
  \/ stack = << >> /\ \E n \in nodes : \E d \in SeedDicts : UpdateParams(n, d)
  \/ \E n \in nodes : StartRun(n)
  \/ StepMaintain
  \/ StepDiagnose
  \/ StepReset

\* a run that has a step to take takes one: the interpreter goes on
SpecRun == DiamondInit /\ [][RunNext]_vars /\ WF_vars(RunStep)

\* C37: every top-level maintain run on an acyclic graph, diamonds included,
\* terminates: it returns or raises, with every call it made closed, and it
\* never has MaxDepth calls open
C37_MaintainRunTerminates ==
  /\ [](Len(stack) < MaxDepth)
  /\ (stack # << >>) ~> (stack = << >>)

\* a run on the top of a diamond has ended after visiting the shared node
C37_Witness ==
  /\ stack = << >>
  /\ lastOp = "run" /\ lastNode = "N3"
  /\ dependents["N3"] = <<"N1", "N2">>
  /\ dependents["N1"] = <<"N2">>
  /\ discovered["N2"] /\ discovered["N1"]

\* C38: a failed calibrate() (bad data or unsuccessful fit) leaves the history
\* of its node and its recalibrated flag as they were; called on its own, the
\* only state it changes is calibration_failed of that node
C38_FailedCalibrateChangesOnlyFlag ==
  [][\A n \in CalNodes :
       cal'[n] = "failed" =>
         /\ history'[n] = history[n]
         /\ recalibrated'[n] = recalibrated[n]
         /\ calibration_failed'[n]
         /\ lastOp' = "calibrate" =>
              /\ history' = history
              /\ recalibrated' = recalibrated
              /\ discovered' = discovered
              /\ \A m \in CalNodes \ {n} :
                   calibration_failed'[m] = calibration_failed[m]]_vars

\* a calibrate has failed on a node that holds a row
C38_Witness ==
  /\ lastOp = "calibrate"
  /\ cal[lastNode] = "failed"
  /\ exc # "none"
  /\ history[lastNode] # << >>
  /\ calibration_failed[lastNode]

====
